---- MODULE Spec2Model ----
(***************************************************************************)
(* State-machine model of src/js/main.js: the six page modules             *)
(* (ThemeToggle, SmoothScroll, ScrollReveal, CardEffects, HeroAnimation,   *)
(* MobileMenu), the top-level init and the event handlers they register.   *)
(* The browser is the environment: storage, media queries, the DOM         *)
(* elements the selectors find, and the events it delivers.                *)
(***************************************************************************)
EXTENDS Integers, Sequences, FiniteSets

\* ------------------------------------------------------------------------
\* Bounds of the model
\* ------------------------------------------------------------------------
\* number of elements matching '.reveal, .stagger-children'
NumCandidates == 2
\* longest batch of IntersectionObserverEntry delivered in one callback
MaxBatch == 2

\* ------------------------------------------------------------------------
\* Program constants and value domains
\* ------------------------------------------------------------------------
HEADER_OFFSET == 80

\* JavaScript null (an absent attribute, a missing storage key, no element)
null == "<null>"

Themes == {"light", "dark"}
\* contents of localStorage['theme-preference'] found at page load
StoredValues == {null, "light", "dark", "", "blue"}
\* "ok": reads and writes work; "full": getItem works, setItem throws
\* (quota); "blocked": any access to localStorage throws
StorageModes == {"ok", "full", "blocked"}

Candidates == 1..NumCandidates

\* values of an anchor's href attribute at click time
Hrefs == {null, "", "#", "#section2", "#nonexistent", "#2bad"}
\* ids present in the document
DomIds == {"section2"}
\* fragments that are not valid CSS selectors: querySelector raises SyntaxError
MalformedSelectors == {"#2bad"}
\* getBoundingClientRect().top of a target and window.pageYOffset at a click
RectTops == {-40, 500}
ScrollYs == {0, 120}

Modules == <<"ThemeToggle", "SmoothScroll", "ScrollReveal", "CardEffects",
             "HeroAnimation", "MobileMenu">>

VARIABLES
  \* --- environment ---
  readyState,          \* document.readyState
  storageMode,         \* behaviour of localStorage
  stored,              \* localStorage['theme-preference'] (null = no key)
  hasMatchMedia,       \* window.matchMedia is defined
  hasIntersectionObserver, \* window.IntersectionObserver is defined
  sysDark,             \* (prefers-color-scheme: dark) matches
  reducedMotion,       \* (prefers-reduced-motion: reduce) matches
  themeTogglePresent,  \* an element matches [data-theme-toggle]
  menuTogglePresent,   \* an element matches [data-mobile-menu-toggle]
  menuPanelPresent,    \* an element matches [data-mobile-menu]
  heroTitle,           \* which selector finds the hero heading
  \* --- top-level control ---
  pc,                  \* position of the script / of init()
  initLog,             \* module inits invoked so far, in order
  \* --- ThemeToggle ---
  dataTheme,           \* data-theme attribute of <html>
  ariaLabel,           \* aria-label of the theme toggle
  themeClickBound,     \* click listener on the theme toggle registered
  systemWatch,         \* 'change' listener on the colour-scheme query
  userChoice,          \* theme passed to setTheme by the latest toggleTheme
  toggleHist,          \* applied theme before each of the latest consecutive toggles
  lastSystemEvent,     \* theme named by the latest 'change' event the listener got
  \* --- SmoothScroll ---
  anchorsBound,        \* click listeners on a[href^="#"] registered
  lastClick,           \* the latest anchor click and what its handler did
  \* --- ScrollReveal ---
  srPath,              \* branch ScrollReveal.init took
  revealed,            \* candidates carrying the class 'revealed'
  observed,            \* observation targets of this.observer
  observeCalls,        \* number of observer.observe(el) calls per candidate
  everIntersecting,    \* candidates some delivered entry reported intersecting
  \* --- CardEffects ---
  cardsBound,
  \* --- HeroAnimation ---
  heroStyle,           \* inline style of the hero heading
  timerPending,        \* the setTimeout callback is scheduled
  \* --- MobileMenu ---
  menuActive,          \* init passed its guard and registered the listeners
  menuOpen,            \* panel carries the class 'is-open'
  ariaExpanded,        \* aria-expanded attribute of the menu toggle
  menuEvent            \* latest event the menu's listeners received, and the
                       \* menu's state when it arrived

envVars == <<readyState, storageMode, hasMatchMedia, hasIntersectionObserver,
             reducedMotion, themeTogglePresent, menuTogglePresent,
             menuPanelPresent, heroTitle>>
themeVars == <<stored, dataTheme, ariaLabel, userChoice, toggleHist,
               lastSystemEvent>>
themeBind == <<themeClickBound, systemWatch>>
scrollVars == <<anchorsBound, lastClick>>
revealVars == <<srPath, revealed, observed, observeCalls, everIntersecting>>
heroVars == <<heroStyle, timerPending>>
menuVars == <<menuActive, menuOpen, ariaExpanded, menuEvent>>

vars == <<envVars, sysDark, pc, initLog, themeVars, themeBind, scrollVars,
          revealVars, cardsBound, heroVars, menuVars>>

NoClick == [href |-> null, rectTop |-> 0, pageYOffset |-> 0,
            calls |-> <<>>, threw |-> FALSE, handled |-> FALSE]
NoMenuEvent == [kind |-> null, before |-> [isOpen |-> FALSE, ariaExpanded |-> null]]
NoStyle == [opacity |-> null, transform |-> null, transition |-> null]

\* ------------------------------------------------------------------------
\* Initial state: the page as loaded, before the script has run
\* ------------------------------------------------------------------------
Init ==
  /\ readyState \in {"loading", "complete"}
  /\ storageMode \in StorageModes
  /\ stored \in (IF storageMode = "blocked" THEN {null} ELSE StoredValues)
  /\ hasMatchMedia \in BOOLEAN
  /\ hasIntersectionObserver \in BOOLEAN
  /\ sysDark \in BOOLEAN
  /\ reducedMotion \in BOOLEAN
  /\ themeTogglePresent \in BOOLEAN
  /\ menuTogglePresent \in BOOLEAN
  /\ menuPanelPresent \in BOOLEAN
  /\ heroTitle \in {".hero-title", "#introduction h1", null}
  /\ pc = "script"
  /\ initLog = <<>>
  /\ dataTheme = null
  /\ ariaLabel = null
  /\ themeClickBound = FALSE
  /\ systemWatch = FALSE
  /\ userChoice = null
  /\ toggleHist = <<>>
  /\ lastSystemEvent = null
  /\ anchorsBound = FALSE
  /\ lastClick = NoClick
  /\ srPath = "none"
  /\ revealed = {}
  /\ observed = {}
  /\ observeCalls = [e \in Candidates |-> 0]
  /\ everIntersecting = {}
  /\ cardsBound = FALSE
  /\ heroStyle = NoStyle
  /\ timerPending = FALSE
  /\ menuActive = FALSE
  /\ menuOpen = FALSE
  /\ ariaExpanded \in (IF menuTogglePresent THEN {null, "false"} ELSE {null})
  /\ menuEvent = NoMenuEvent

\* Event handlers run only between tasks: after init() returned or was
\* aborted by an uncaught exception (listeners registered before the
\* exception stay registered).
Interactive == pc \in {"done", "threw"}

\* ------------------------------------------------------------------------
\* Top level: 'Run on DOM ready' and init()
\* ------------------------------------------------------------------------
\* the module whose init() is invoked after module m returned normally
NextModule(m) ==
  IF \E i \in 1..(Len(Modules) - 1) : Modules[i] = m
    THEN Modules[(CHOOSE i \in 1..(Len(Modules) - 1) : Modules[i] = m) + 1]
    ELSE "done"

\* variant: init() is called without looking at document.readyState
RunScript_Immediate ==
  /\ pc = "script"
  /\ pc' = Modules[1]
  /\ UNCHANGED <<envVars, sysDark, initLog, themeVars, themeBind, scrollVars,
                 revealVars, cardsBound, heroVars, menuVars>>

\* the script body: defer init to DOMContentLoaded or call it at once
RunScript ==
  /\ pc = "script"
  /\ pc' = IF readyState = "loading" THEN "waiting" ELSE Modules[1]
  /\ UNCHANGED <<envVars, sysDark, initLog, themeVars, themeBind, scrollVars,
                 revealVars, cardsBound, heroVars, menuVars>>

\* the browser fires DOMContentLoaded: the registered listener calls init()
DOMContentLoaded ==
  /\ pc = "waiting"
  /\ readyState' = "interactive"
  /\ pc' = Modules[1]
  /\ UNCHANGED <<storageMode, hasMatchMedia, hasIntersectionObserver,
                 reducedMotion, themeTogglePresent, menuTogglePresent,
                 menuPanelPresent, heroTitle, sysDark, initLog, themeVars,
                 themeBind, scrollVars, revealVars, cardsBound, heroVars,
                 menuVars>>

\* ------------------------------------------------------------------------
\* ThemeToggle
\* ------------------------------------------------------------------------
\* JavaScript truthiness of a string-or-null value
Truthy(v) == v # null /\ v # ""

\* localStorage.getItem inside try/catch
getSavedTheme == IF storageMode = "blocked" THEN null ELSE stored

getSystemTheme == IF hasMatchMedia /\ sysDark THEN "dark" ELSE "light"

\* variant: saved ?? system (only null counts as absent)
InitialTheme_NullishOnly(savedTheme, systemTheme) ==
  IF savedTheme # null THEN savedTheme ELSE systemTheme

\* savedTheme || systemTheme
InitialTheme(savedTheme, systemTheme) ==
  IF Truthy(savedTheme) THEN savedTheme ELSE systemTheme

\* the aria-label written for an applied theme
ToggleLabel(theme) ==
  IF theme = "dark" THEN "Switch to light mode" ELSE "Switch to dark mode"

\* localStorage.setItem inside try/catch: the value of the key afterwards
setItem(theme) == IF storageMode = "ok" THEN theme ELSE stored

\* variant: the save flag is ignored, every call writes to storage
setTheme_AlwaysSaves(theme, save) ==
  /\ dataTheme' = theme
  /\ stored' = setItem(theme)
  /\ ariaLabel' = IF themeTogglePresent THEN ToggleLabel(theme) ELSE ariaLabel

setTheme(theme, save) ==
  /\ dataTheme' = theme
  /\ stored' = IF save THEN setItem(theme) ELSE stored
  /\ ariaLabel' = IF themeTogglePresent THEN ToggleLabel(theme) ELSE ariaLabel

\* variant: the comparison never succeeds
NewTheme_NeverLight(currentTheme) == "dark"

\* currentTheme === 'dark' ? 'light' : 'dark'
NewTheme(currentTheme) == IF currentTheme = "dark" THEN "light" ELSE "dark"

ThemeToggleInit ==
  /\ pc = "ThemeToggle"
  /\ setTheme(InitialTheme(getSavedTheme, getSystemTheme), FALSE)
  /\ themeClickBound' = themeTogglePresent
  /\ systemWatch' = hasMatchMedia
  /\ initLog' = Append(initLog, "ThemeToggle")
  /\ pc' = NextModule("ThemeToggle")
  /\ UNCHANGED <<envVars, sysDark, userChoice, toggleHist, lastSystemEvent,
                 scrollVars, revealVars, cardsBound, heroVars, menuVars>>

\* the operating system's colour-scheme preference flips; the 'change'
\* listener, when registered, runs with e.matches = the new value
SystemPreferenceChange ==
  /\ pc \in {"script", "waiting", "done", "threw"}
  /\ sysDark' = ~sysDark
  /\ lastSystemEvent' = IF systemWatch
                          THEN (IF sysDark' THEN "dark" ELSE "light")
                          ELSE lastSystemEvent
  /\ IF systemWatch /\ ~Truthy(getSavedTheme)
       THEN /\ setTheme(IF sysDark' THEN "dark" ELSE "light", FALSE)
            /\ toggleHist' = <<>>
       ELSE UNCHANGED <<stored, dataTheme, ariaLabel, toggleHist>>
  /\ UNCHANGED <<envVars, pc, initLog, userChoice, themeBind, scrollVars,
                 revealVars, cardsBound, heroVars, menuVars>>

\* ------------------------------------------------------------------------
\* MobileMenu: the handlers as functions of the menu's DOM state
\* ------------------------------------------------------------------------
MenuState == [isOpen |-> menuOpen, ariaExpanded |-> ariaExpanded]

\* setAttribute converts its value to a string
BoolString(b) == IF b THEN "true" ELSE "false"

\* variant: the attribute is written from the state before the flip
toggleMenu_StaleAttribute(m) ==
  [isOpen |-> ~m.isOpen, ariaExpanded |-> BoolString(m.isOpen)]

\* classList.toggle returns whether the class is present afterwards
toggleMenu(m) ==
  LET isOpen == ~m.isOpen
  IN  [isOpen |-> isOpen, ariaExpanded |-> BoolString(isOpen)]

closeMenu(m) == [isOpen |-> FALSE, ariaExpanded |-> "false"]

\* variant: the toggle.contains(e.target) test is missing
documentClick_PanelOnly(m, target) ==
  IF menuActive /\ target # "menuPanel" THEN closeMenu(m) ELSE m

\* the document-level click listener: every click bubbles to it; target is
\* where the click landed: "menuToggle", "menuPanel" or "outside"
documentClick(m, target) ==
  IF menuActive /\ target \notin {"menuPanel", "menuToggle"}
    THEN closeMenu(m)
    ELSE m

\* the document-level keydown listener
documentKeydown(m, key) ==
  IF menuActive /\ key = "Escape" THEN closeMenu(m) ELSE m

SetMenu(m) ==
  /\ menuOpen' = m.isOpen
  /\ ariaExpanded' = m.ariaExpanded

\* the menu's listeners, once registered, receive an event of this kind (the
\* place of a click, or the key pressed)
MenuReceives(kind) ==
  menuEvent' = IF menuActive
                 THEN [kind |-> kind, before |-> MenuState]
                 ELSE menuEvent

\* ------------------------------------------------------------------------
\* ThemeToggle: click on the toggle control
\* ------------------------------------------------------------------------
\* toggleTheme(), then the click bubbles to the document; the control sits
\* inside the menu panel or outside of it
ThemeToggleClick ==
  /\ Interactive
  /\ themeClickBound
  /\ LET newTheme == NewTheme(dataTheme)
     IN  /\ setTheme(newTheme, TRUE)
         /\ userChoice' = newTheme
  /\ toggleHist' = IF Len(toggleHist) < 2
                     THEN Append(toggleHist, dataTheme)
                     ELSE <<toggleHist[2], dataTheme>>
  /\ \E target \in {"menuPanel", "outside"} :
       /\ SetMenu(documentClick(MenuState, target))
       /\ MenuReceives(target)
  /\ UNCHANGED <<envVars, sysDark, pc, initLog, lastSystemEvent, themeBind,
                 scrollVars, revealVars, cardsBound, heroVars, menuActive>>

\* ------------------------------------------------------------------------
\* SmoothScroll
\* ------------------------------------------------------------------------
SmoothScrollInit ==
  /\ pc = "SmoothScroll"
  /\ anchorsBound' = TRUE
  /\ initLog' = Append(initLog, "SmoothScroll")
  /\ pc' = NextModule("SmoothScroll")
  /\ UNCHANGED <<envVars, sysDark, themeVars, themeBind, lastClick,
                 revealVars, cardsBound, heroVars, menuVars>>

\* document.querySelector(href): raises on an invalid selector, else the
\* element with that id or null
querySelector(href) ==
  IF href \in MalformedSelectors
    THEN [threw |-> TRUE, el |-> null]
    ELSE IF \E id \in DomIds : href = "#" \o id
           THEN [threw |-> FALSE, el |-> href]
           ELSE [threw |-> FALSE, el |-> null]

\* variant: the header offset is not subtracted
OffsetPosition_NoHeader(rectTop, pageYOffset) == rectTop + pageYOffset

OffsetPosition(rectTop, pageYOffset) == (rectTop + pageYOffset) - HEADER_OFFSET

Call(op, top, url) == [op |-> op, top |-> top, url |-> url]

\* the calls handleClick makes on the event, the window and the history,
\* in order, and whether it ends by an exception
handleClick(href, rectTop, pageYOffset) ==
  IF ~Truthy(href) \/ href = "#"
    THEN [calls |-> <<>>, threw |-> FALSE]
    ELSE LET target == querySelector(href)
         IN  IF target.threw
               THEN [calls |-> <<>>, threw |-> TRUE]
               ELSE IF target.el = null
                 THEN [calls |-> <<>>, threw |-> FALSE]
                 ELSE [calls |->
                         << Call("preventDefault", 0, null),
                            Call("scrollTo", OffsetPosition(rectTop, pageYOffset), null),
                            Call("pushState", 0, href) >>,
                       threw |-> FALSE]

\* a click on a bound anchor; the click then bubbles to the document
AnchorClick ==
  /\ Interactive
  /\ anchorsBound
  /\ \E href \in Hrefs, rectTop \in RectTops, y \in ScrollYs :
       LET r == handleClick(href, rectTop, y)
           found == r.calls # <<>>
       IN  lastClick' = [href |-> href,
                         rectTop |-> IF found THEN rectTop ELSE 0,
                         pageYOffset |-> IF found THEN y ELSE 0,
                         calls |-> r.calls, threw |-> r.threw,
                         handled |-> TRUE]
  /\ \E target \in {"menuPanel", "outside"} :
       /\ SetMenu(documentClick(MenuState, target))
       /\ MenuReceives(target)
  /\ UNCHANGED <<envVars, sysDark, pc, initLog, themeVars, themeBind,
                 anchorsBound, revealVars, cardsBound, heroVars, menuActive>>

\* ------------------------------------------------------------------------
\* ScrollReveal
\* ------------------------------------------------------------------------
\* variant: the reduced-motion branch returns without revealing
RevealImmediately_Nothing(cur) == cur

\* forEach(el => el.classList.add('revealed')) over the candidates
RevealImmediately(cur) == cur \cup Candidates

\* forEach(el => this.observer.observe(el)) over the candidates
ObserveAll(cur) == cur \cup Candidates

ScrollRevealInit ==
  /\ pc = "ScrollReveal"
  /\ initLog' = Append(initLog, "ScrollReveal")
  /\ IF ~hasMatchMedia
       THEN \* window.matchMedia is not a function: TypeError
            /\ srPath' = "threw"
            /\ pc' = "threw"
            /\ UNCHANGED <<revealed, observed, observeCalls>>
       ELSE IF reducedMotion
         THEN /\ srPath' = "reduced"
              /\ revealed' = RevealImmediately(revealed)
              /\ pc' = NextModule("ScrollReveal")
              /\ UNCHANGED <<observed, observeCalls>>
         ELSE IF ~hasIntersectionObserver
           THEN \* IntersectionObserver is not defined: ReferenceError
                /\ srPath' = "threw"
                /\ pc' = "threw"
                /\ UNCHANGED <<revealed, observed, observeCalls>>
           ELSE /\ srPath' = "observer"
                /\ observed' = ObserveAll(observed)
                /\ observeCalls' = [e \in Candidates |-> observeCalls[e] + 1]
                /\ pc' = NextModule("ScrollReveal")
                /\ UNCHANGED revealed
  /\ UNCHANGED <<envVars, sysDark, themeVars, themeBind, scrollVars,
                 everIntersecting, cardsBound, heroVars, menuVars>>

\* variant: the isIntersecting test is missing
HandleEntry_Unconditional(entry, st) ==
  [revealed |-> st.revealed \cup {entry.target},
   observed |-> st.observed \ {entry.target}]

\* the body of the forEach in handleIntersection, for one entry
HandleEntry(entry, st) ==
  IF entry.isIntersecting
    THEN [revealed |-> st.revealed \cup {entry.target},
          observed |-> st.observed \ {entry.target}]
    ELSE st

RECURSIVE handleIntersection(_, _)
handleIntersection(entries, st) ==
  IF entries = <<>>
    THEN st
    ELSE handleIntersection(Tail(entries), HandleEntry(Head(entries), st))

\* the batches the observer can deliver: entries for current observation
\* targets, a target possibly more than once
Batches ==
  UNION { [1..n -> [target : observed, isIntersecting : BOOLEAN]] : n \in 1..MaxBatch }

IntersectionBatch ==
  /\ Interactive
  /\ srPath = "observer"
  /\ \E entries \in Batches :
       LET st == handleIntersection(entries, [revealed |-> revealed, observed |-> observed])
       IN  /\ revealed' = st.revealed
           /\ observed' = st.observed
           /\ everIntersecting' = everIntersecting \cup
                { entries[i].target : i \in { j \in 1..Len(entries) : entries[j].isIntersecting } }
  /\ UNCHANGED <<envVars, sysDark, pc, initLog, themeVars, themeBind, scrollVars,
                 srPath, observeCalls, cardsBound, heroVars, menuVars>>

\* ------------------------------------------------------------------------
\* CardEffects
\* ------------------------------------------------------------------------
CardEffectsInit ==
  /\ pc = "CardEffects"
  /\ cardsBound' = TRUE
  /\ initLog' = Append(initLog, "CardEffects")
  /\ pc' = NextModule("CardEffects")
  /\ UNCHANGED <<envVars, sysDark, themeVars, themeBind, scrollVars,
                 revealVars, heroVars, menuVars>>

\* ------------------------------------------------------------------------
\* HeroAnimation
\* ------------------------------------------------------------------------
\* variant: the transition is already enabled with the initial state
InitialHeroStyle_WithTransition(style) ==
  [style EXCEPT !.opacity = "0", !.transform = "translateY(20px)",
                !.transition = "opacity 0.8s ease-out, transform 0.8s ease-out"]

\* the two style writes of init
InitialHeroStyle(style) ==
  [style EXCEPT !.opacity = "0", !.transform = "translateY(20px)"]

\* the three style writes of the timer callback
FinalHeroStyle(style) ==
  [style EXCEPT !.transition = "opacity 0.8s ease-out, transform 0.8s ease-out",
                !.opacity = "1", !.transform = "translateY(0)"]

HeroAnimationInit ==
  /\ pc = "HeroAnimation"
  /\ initLog' = Append(initLog, "HeroAnimation")
  /\ IF ~hasMatchMedia
       THEN /\ pc' = "threw"
            /\ UNCHANGED heroVars
       ELSE /\ pc' = NextModule("HeroAnimation")
            /\ IF reducedMotion \/ heroTitle = null
                 THEN UNCHANGED heroVars
                 ELSE /\ heroStyle' = InitialHeroStyle(heroStyle)
                      /\ timerPending' = TRUE
  /\ UNCHANGED <<envVars, sysDark, themeVars, themeBind, scrollVars,
                 revealVars, cardsBound, menuVars>>

\* the setTimeout callback
HeroTimerFires ==
  /\ Interactive
  /\ timerPending
  /\ timerPending' = FALSE
  /\ heroStyle' = FinalHeroStyle(heroStyle)
  /\ UNCHANGED <<envVars, sysDark, pc, initLog, themeVars, themeBind, scrollVars,
                 revealVars, cardsBound, menuVars>>

\* ------------------------------------------------------------------------
\* MobileMenu: init and the events
\* ------------------------------------------------------------------------
MobileMenuInit ==
  /\ pc = "MobileMenu"
  /\ menuActive' = (menuTogglePresent /\ menuPanelPresent)
  /\ initLog' = Append(initLog, "MobileMenu")
  /\ pc' = NextModule("MobileMenu")
  /\ UNCHANGED <<envVars, sysDark, themeVars, themeBind, scrollVars,
                 revealVars, cardsBound, heroVars, menuOpen, ariaExpanded,
                 menuEvent>>

\* a click on the menu toggle: its own listener, then the document's
MenuToggleClick ==
  /\ Interactive
  /\ menuActive
  /\ SetMenu(documentClick(toggleMenu(MenuState), "menuToggle"))
  /\ MenuReceives("menuToggle")
  /\ UNCHANGED <<envVars, sysDark, pc, initLog, themeVars, themeBind, scrollVars,
                 revealVars, cardsBound, heroVars, menuActive>>

\* a click on an element without a listener of its own, inside the panel
\* or outside of menu and toggle
PageClick ==
  /\ Interactive
  /\ menuActive
  /\ \E target \in {"menuPanel", "outside"} :
       /\ SetMenu(documentClick(MenuState, target))
       /\ MenuReceives(target)
  /\ UNCHANGED <<envVars, sysDark, pc, initLog, themeVars, themeBind, scrollVars,
                 revealVars, cardsBound, heroVars, menuActive>>

Keys == {"Escape", "Enter"}

KeyDown ==
  /\ Interactive
  /\ menuActive
  /\ \E key \in Keys :
       /\ SetMenu(documentKeydown(MenuState, key))
       /\ MenuReceives(key)
  /\ UNCHANGED <<envVars, sysDark, pc, initLog, themeVars, themeBind, scrollVars,
                 revealVars, cardsBound, heroVars, menuActive>>

\* ------------------------------------------------------------------------
\* Specifications
\* ------------------------------------------------------------------------
\* the script body and the synchronous run of init()
InitSteps ==
  \/ RunScript
  \/ DOMContentLoaded
  \/ ThemeToggleInit
  \/ SmoothScrollInit
  \/ ScrollRevealInit
  \/ CardEffectsInit
  \/ HeroAnimationInit
  \/ MobileMenuInit

Next ==
  \/ InitSteps
  \/ SystemPreferenceChange
  \/ ThemeToggleClick
  \/ AnchorClick
  \/ IntersectionBatch
  \/ HeroTimerFires
  \/ MenuToggleClick
  \/ PageClick
  \/ KeyDown

\* the whole page
Spec == Init /\ [][Next]_vars

\* The modules own disjoint state, so each is also checked on a page that
\* holds only what it reads: the elements and preferences of the other
\* modules are fixed, and only the events that reach its handlers occur.

\* startup alone, in every environment
NextInit == InitSteps
SpecInit == Init /\ [][NextInit]_vars

\* the script runs to completion and the browser fires DOMContentLoaded
SpecInitFair == SpecInit /\ WF_vars(NextInit)

\* ThemeToggle: storage, system preference and the toggle control vary
InitTheme ==
  /\ Init
  /\ menuTogglePresent = FALSE /\ menuPanelPresent = FALSE
  /\ heroTitle = null
  /\ hasIntersectionObserver = TRUE /\ reducedMotion = FALSE
NextTheme == InitSteps \/ SystemPreferenceChange \/ ThemeToggleClick
SpecTheme == InitTheme /\ [][NextTheme]_vars

\* SmoothScroll and MobileMenu: the click and key events
InitClick ==
  /\ Init
  /\ storageMode = "ok" /\ stored = null /\ sysDark = FALSE
  /\ themeTogglePresent = FALSE
  /\ heroTitle = null
  /\ hasMatchMedia = TRUE /\ hasIntersectionObserver = TRUE
  /\ reducedMotion = FALSE
NextClick == InitSteps \/ AnchorClick \/ MenuToggleClick \/ PageClick \/ KeyDown
SpecClick == InitClick /\ [][NextClick]_vars

\* ScrollReveal and HeroAnimation: media queries, observer and timer vary
InitMotion ==
  /\ Init
  /\ storageMode = "ok" /\ stored = null /\ sysDark = FALSE
  /\ themeTogglePresent = FALSE
  /\ menuTogglePresent = FALSE /\ menuPanelPresent = FALSE
NextMotion == InitSteps \/ IntersectionBatch \/ HeroTimerFires
SpecMotion == InitMotion /\ [][NextMotion]_vars

\* init() runs to completion and the event loop delivers a scheduled timer
SpecMotionFair ==
  SpecMotion /\ WF_vars(InitSteps) /\ WF_vars(HeroTimerFires)

\* ------------------------------------------------------------------------
\* Properties
\* ------------------------------------------------------------------------
ThemeInitDone == \E i \in 1..Len(initLog) : initLog[i] = "ThemeToggle"
ScrollRevealInitDone == \E i \in 1..Len(initLog) : initLog[i] = "ScrollReveal"

\* C1: after a toggleTheme, whatever system-preference changes follow, the
\* applied theme is still the theme that toggle chose (also when the
\* storage write of the toggle failed).
C1_UserChoiceSticks ==
  userChoice # null => dataTheme = userChoice

\* C2 (as stated): right after ThemeToggle.init, a persisted value, if one
\* exists, is the applied theme; with none, the applied theme is dark when
\* matchMedia exists and reports dark, light otherwise.
C2_InitPrecedence ==
  pc = "SmoothScroll" =>
    /\ stored # null => dataTheme = stored
    /\ (stored = null /\ hasMatchMedia /\ sysDark) => dataTheme = "dark"
    /\ (stored = null /\ ~(hasMatchMedia /\ sysDark)) => dataTheme = "light"

\* C2 (amended): right after ThemeToggle.init, a non-empty persisted value
\* is the applied theme; with no value or the empty string, the applied
\* theme is dark when matchMedia exists and reports dark, light otherwise.
C2_InitPrecedenceNonEmpty ==
  pc = "SmoothScroll" =>
    /\ stored \notin {null, ""} => dataTheme = stored
    /\ (stored \in {null, ""} /\ hasMatchMedia /\ sysDark) => dataTheme = "dark"
    /\ (stored \in {null, ""} /\ ~(hasMatchMedia /\ sysDark)) => dataTheme = "light"

C2_Witness ==
  /\ pc = "SmoothScroll"
  /\ stored = "light" /\ hasMatchMedia /\ sysDark
  /\ dataTheme = "light"

\* C3: from the end of ThemeToggle.init on, the applied theme is one of
\* light and dark, whatever the persisted key held.
C3_AppliedThemeIsLightOrDark ==
  ThemeInitDone => dataTheme \in Themes

\* C4: after two consecutive toggleTheme calls that started from an applied
\* theme t in {light, dark}, the applied theme is t again and, when storage
\* writes succeed, the persisted value is t.
C4_DoubleToggle ==
  (Len(toggleHist) = 2 /\ toggleHist[1] \in Themes) =>
    /\ dataTheme = toggleHist[1]
    /\ storageMode = "ok" => stored = toggleHist[1]

C4_Witness ==
  /\ Len(toggleHist) = 2
  /\ toggleHist[1] = "dark"
  /\ storageMode = "ok"
  /\ stored = "dark"

\* C5: with storage unavailable or matchMedia missing (and the observer
\* capability present), init is never aborted by an exception.
C5_InitSurvivesMissingCapability ==
  (hasIntersectionObserver /\ (~hasMatchMedia \/ storageMode # "ok")) =>
    pc # "threw"

\* C6: a click whose fragment does not resolve to an element, a malformed
\* fragment included, is handled without an exception and without any call.
C6_UnresolvedFragmentIsNoOp ==
  ( /\ lastClick.handled
    /\ lastClick.href \notin {null, "", "#"}
    /\ lastClick.href \notin {"#" \o id : id \in DomIds} ) =>
    /\ ~lastClick.threw
    /\ lastClick.calls = <<>>

\* C7: a click on a bound anchor makes no call at all unless its href names
\* an existing element; then it makes exactly preventDefault, one scrollTo
\* to rect top + pageYOffset - 80, and one pushState of the href, in order.
C7_ClickEffects ==
  lastClick.handled =>
    IF lastClick.href \in {"#" \o id : id \in DomIds}
      THEN lastClick.calls =
             << [op |-> "preventDefault", top |-> 0, url |-> null],
                [op |-> "scrollTo",
                 top |-> lastClick.rectTop + lastClick.pageYOffset - 80,
                 url |-> null],
                [op |-> "pushState", top |-> 0, url |-> lastClick.href] >>
      ELSE lastClick.calls = <<>>

C7_Witness ==
  /\ lastClick.handled
  /\ lastClick.href = "#section2"
  /\ lastClick.rectTop = 500 /\ lastClick.pageYOffset = 120
  /\ Len(lastClick.calls) = 3
  /\ lastClick.calls[2].top = 540

\* C8: when reduced motion is active at ScrollReveal.init, from the end of
\* that init on every candidate is revealed, no observer exists and no
\* element was ever passed to observe.
C8_ReducedMotionRevealsAll ==
  (ScrollRevealInitDone /\ hasMatchMedia /\ reducedMotion) =>
    /\ revealed = Candidates
    /\ srPath = "reduced"
    /\ observed = {}
    /\ \A e \in Candidates : observeCalls[e] = 0

C8_Witness ==
  /\ pc = "done"
  /\ hasMatchMedia /\ reducedMotion
  /\ revealed = Candidates
  /\ observed = {}

\* C9: without reduced motion a revealed element was reported intersecting
\* by an earlier batch, is no longer observed, and was observed at most
\* once; and an element once revealed stays revealed.
C9_RevealOneShot ==
  /\ [](~(hasMatchMedia /\ reducedMotion) =>
          /\ revealed \subseteq everIntersecting
          /\ revealed \cap observed = {}
          /\ \A e \in Candidates : observeCalls[e] <= 1)
  /\ [][revealed \subseteq revealed']_vars

C9_Witness ==
  /\ srPath = "observer"
  /\ revealed # {}
  /\ observed # {}
  /\ revealed \cup observed = Candidates

\* C10: from the end of MobileMenu.init on, with the menu active,
\* aria-expanded is "true" exactly when the panel is open and "false"
\* exactly when it is closed.
C10_AriaMirrorsMenuState ==
  menuActive =>
    /\ (ariaExpanded = "true") <=> menuOpen
    /\ (ariaExpanded = "false") <=> ~menuOpen

\* C11: the menu starts closed; a toggle activation flips the panel and
\* writes the new state to aria-expanded; an outside click or an Escape
\* press while open closes it with aria-expanded "false"; a click inside
\* the panel or another key changes neither.
C11_MenuStateMachine ==
  /\ (pc = "MobileMenu" => ~menuOpen)
  /\ menuEvent.kind = "menuToggle" =>
       /\ menuOpen = ~menuEvent.before.isOpen
       /\ ariaExpanded = (IF menuEvent.before.isOpen THEN "false" ELSE "true")
  /\ (menuEvent.kind \in {"outside", "Escape"} /\ menuEvent.before.isOpen) =>
       /\ ~menuOpen
       /\ ariaExpanded = "false"
  /\ menuEvent.kind \in ({"menuPanel"} \cup (Keys \ {"Escape"})) =>
       /\ menuOpen = menuEvent.before.isOpen
       /\ ariaExpanded = menuEvent.before.ariaExpanded

C11_Witness ==
  /\ menuEvent.kind = "Escape"
  /\ menuEvent.before.isOpen
  /\ menuEvent.before.ariaExpanded = "true"
  /\ ~menuOpen
  /\ ariaExpanded = "false"

\* C12: an outside click or an Escape press that arrives while the menu is
\* closed leaves the is-open class and the aria-expanded attribute (its
\* value or its absence) as they were.
C12_ClosedMenuUntouched ==
  (menuEvent.kind \in {"outside", "Escape"} /\ ~menuEvent.before.isOpen) =>
    /\ menuOpen = menuEvent.before.isOpen
    /\ ariaExpanded = menuEvent.before.ariaExpanded

\* C18: one click reaches the toggle's listener and then the document's; a
\* click inside the toggle or inside the panel is never closed by the
\* document's listener, so a click on the toggle while closed ends with the
\* menu open and aria-expanded "true".
C18_ToggleClickNotUndone ==
  /\ (menuEvent.kind = "menuToggle" /\ ~menuEvent.before.isOpen) =>
       /\ menuOpen
       /\ ariaExpanded = "true"
  /\ (menuEvent.kind \in {"menuToggle", "menuPanel"} /\ ~menuOpen) =>
       \/ menuEvent.kind = "menuToggle" /\ menuEvent.before.isOpen
       \/ menuEvent.kind = "menuPanel" /\ ~menuEvent.before.isOpen

C18_Witness ==
  /\ menuEvent.kind = "menuToggle"
  /\ ~menuEvent.before.isOpen
  /\ menuOpen
  /\ ariaExpanded = "true"

\* C13: a module's init that fails does not keep the later modules from
\* being initialized: once the init run has ended, CardEffects,
\* HeroAnimation and MobileMenu have been invoked.
C13_InitFailureNotFatal ==
  Interactive =>
    \A m \in {"CardEffects", "HeroAnimation", "MobileMenu"} :
      \E i \in 1..Len(initLog) : initLog[i] = m

\* C16: init runs once and not while the document is loading (deferred to
\* DOMContentLoaded when it is, called at once otherwise), and its run
\* invokes the module inits in the fixed order, each at most once.
C16_InitOnceInOrder ==
  /\ [](/\ Len(initLog) <= Len(Modules)
        /\ \A i \in 1..Len(initLog) : initLog[i] = Modules[i]
        /\ pc \notin {"script", "waiting"} => readyState # "loading"
        /\ pc = "waiting" => (readyState = "loading" /\ initLog = <<>>))
  /\ [][(pc = "script" /\ pc' # pc) =>
          pc' = (IF readyState = "loading" THEN "waiting" ELSE "ThemeToggle")]_vars
  /\ <>(initLog # <<>>)

C16_Witness ==
  /\ pc = "done"
  /\ readyState = "interactive"
  /\ initLog = Modules

\* C14: ThemeToggle.init and the system-preference listener leave the
\* persisted key as it is; while no value is persisted, a change event sets
\* the applied theme to the event's value, so until the first toggle the
\* applied theme is the latest system value.
C14_SystemThemeFollowedUnpersisted ==
  /\ [][(pc = "ThemeToggle" \/ sysDark' # sysDark) => stored' = stored]_vars
  /\ [][(sysDark' # sysDark /\ systemWatch /\ stored = null) =>
          dataTheme' = (IF sysDark' THEN "dark" ELSE "light")]_vars
  /\ []((lastSystemEvent # null /\ stored = null /\ userChoice = null) =>
          dataTheme = lastSystemEvent)

C14_Witness ==
  /\ lastSystemEvent = "dark"
  /\ storageMode = "ok" /\ stored = null
  /\ userChoice = null
  /\ dataTheme = "dark"

\* C15: with a theme toggle present, from the end of ThemeToggle.init on
\* the aria-label is "Switch to light mode" exactly when the applied theme
\* is dark and "Switch to dark mode" exactly when it is light.
C15_LabelNamesOppositeTheme ==
  (ThemeInitDone /\ themeTogglePresent) =>
    /\ (ariaLabel = "Switch to light mode") <=> (dataTheme = "dark")
    /\ (ariaLabel = "Switch to dark mode") <=> (dataTheme = "light")

HeroInitDone == \E i \in 1..Len(initLog) : initLog[i] = "HeroAnimation"

\* C17: without reduced motion and with a heading, HeroAnimation.init
\* writes opacity 0 and the offset with no transition and schedules the one
\* timer; the transition appears only together with the final state, when
\* the timer fires; a scheduled timer leads to the final state, which then
\* stays. With reduced motion or no heading, init writes no style and
\* schedules no timer.
C17_HeroTwoPhase ==
  /\ [](timerPending =>
          heroStyle = [opacity |-> "0", transform |-> "translateY(20px)",
                       transition |-> null])
  /\ []((HeroInitDone /\ hasMatchMedia /\ ~reducedMotion /\ heroTitle # null) =>
          (timerPending \/ heroStyle.opacity = "1"))
  /\ [](heroStyle.transition # null =>
          (/\ heroStyle.opacity = "1"
           /\ heroStyle.transform = "translateY(0)"
           /\ ~timerPending))
  /\ [][(timerPending' /\ ~timerPending) => pc = "HeroAnimation"]_vars
  /\ [][heroStyle.opacity = "1" => heroStyle' = heroStyle]_vars
  /\ (timerPending ~> (heroStyle.opacity = "1" /\ heroStyle.transform = "translateY(0)"))
  /\ []((reducedMotion \/ heroTitle = null) =>
          (heroStyle = NoStyle /\ ~timerPending))

C17_Witness ==
  /\ pc = "done"
  /\ ~timerPending
  /\ heroStyle.opacity = "1"
  /\ heroStyle.transform = "translateY(0)"
  /\ heroStyle.transition # null

====
